---- MODULE Spec2Model ----
(***************************************************************************)
(* Model of the /check handler of the drug safety checker (src/app.py):    *)
(* check_drugs with its two collaborators get_rxcui and get_interactions.  *)
(* One behaviour of the model is one request.                              *)
(***************************************************************************)
EXTENDS Integers, Sequences, FiniteSets, TLC

VARIABLES drugs, age, pc, results, safe_drugs, i, drug_to_rxcui, rxcui_to_drug,
          valid_rxcuis, interaction_map, rxcui_calls, interaction_calls

vars == <<drugs, age, pc, results, safe_drugs, i, drug_to_rxcui, rxcui_to_drug,
          valid_rxcuis, interaction_map, rxcui_calls, interaction_calls>>

\* ---------------------------------------------------------------- bounds
MaxDrugs == 3
MaxPairs == 2

\* ------------------------------------------------------- request inputs
DrugNames == {"ibuprofen", "Ibuprofen", "naproxen", "advil", "Advil", "motrin"}
Ages == {12, 13, 30}

RECURSIVE SeqsUpTo(_, _)
SeqsUpTo(S, n) ==
    IF n = 0 THEN {<<>>}
    ELSE LET shorter == SeqsUpTo(S, n - 1)
         IN  shorter \cup {Append(s, x) : s \in {t \in shorter : Len(t) = n - 1}, x \in S}

\* ------------------------------------------------------- Python values
\* A JSON/Python value that may come back from a collaborator.
PyNone == [type |-> "NoneType", val |-> ""]
PyStr(s) == [type |-> "str", val |-> s]
PyInt(s) == [type |-> "int", val |-> s]
PyList(s) == [type |-> "list", val |-> s]

\* Python truthiness as used by "if rxcui:".
Truthy(v) == ~(v.type = "NoneType" \/ (v.type = "str" /\ v.val = ""))
\* Only hashable values may be dict keys.
Hashable(v) == v.type # "list"
IsStr(v) == v.type = "str"

\* str.lower() on the strings the model uses.
lower(s) ==
    CASE s = "Ibuprofen" -> "ibuprofen"
      [] s = "Advil" -> "advil"
      [] s = "Motrin" -> "motrin"
      [] OTHER -> s

\* An insertion-ordered dict is a sequence of [key, val] records.
DictHas(d, k) == \E n \in DOMAIN d : d[n].key = k
DictSet(d, k, v) ==
    IF DictHas(d, k)
    THEN [n \in DOMAIN d |-> IF d[n].key = k THEN [key |-> k, val |-> v] ELSE d[n]]
    ELSE Append(d, [key |-> k, val |-> v])
DictValues(d) == [n \in DOMAIN d |-> d[n].val]
DictKeys(d) == {d[n].key : n \in DOMAIN d}

\* ------------------------------------------------------- static tables
\* The typographic apostrophe of the aspirin reason is written in ASCII.
dangerous_drugs_without_nsaids ==
    [k \in {"cocaine", "heroin", "aspirin"} |->
        [reason |-> "Illicit or restricted", alternatives |-> <<"paracetamol">>]]

dangerous_drugs ==
    [k \in {"cocaine", "heroin", "methamphetamine", "lsd", "codeine", "tramadol",
            "diazepam", "alprazolam", "morphine", "fentanyl", "aspirin", "warfarin",
            "acetaminophen", "ibuprofen", "naproxen", "clonazepam", "oxycodone"} |->
     CASE k = "cocaine" ->
            [reason |-> "Highly addictive and illegal substance. Not approved for medical use in children.",
             alternatives |-> <<"paracetamol", "ibuprofen">>]
       [] k = "heroin" ->
            [reason |-> "Illicit opioid with high risk of death and no medical use.",
             alternatives |-> <<"tramadol", "acetaminophen">>]
       [] k = "methamphetamine" ->
            [reason |-> "Highly addictive stimulant. Not safe for general or pediatric use.",
             alternatives |-> <<"modafinil">>]
       [] k = "lsd" ->
            [reason |-> "Hallucinogenic drug with no FDA-approved therapeutic use.",
             alternatives |-> <<>>]
       [] k = "codeine" ->
            [reason |-> "Opioid pain reliever. Dangerous for children under 12 due to risk of respiratory depression.",
             alternatives |-> <<"paracetamol", "ibuprofen">>]
       [] k = "tramadol" ->
            [reason |-> "Opioid-like painkiller. Not safe for children under 12. Risk of addiction and seizures.",
             alternatives |-> <<"naproxen", "acetaminophen">>]
       [] k = "diazepam" ->
            [reason |-> "Sedative medication. Should only be used under strict medical supervision in children.",
             alternatives |-> <<"melatonin", "hydroxyzine">>]
       [] k = "alprazolam" ->
            [reason |-> "Anti-anxiety drug. High risk of dependence and not safe for pediatric use.",
             alternatives |-> <<"buspirone", "sertraline">>]
       [] k = "morphine" ->
            [reason |-> "Strong opioid. Requires strict dosage control and is generally not suitable for pediatric patients.",
             alternatives |-> <<"acetaminophen", "naproxen">>]
       [] k = "fentanyl" ->
            [reason |-> "Extremely potent opioid. Risk of overdose. Not safe for general or home use.",
             alternatives |-> <<"ibuprofen", "tramadol (adult use only)">>]
       [] k = "aspirin" ->
            [reason |-> "Risk of Reye's syndrome in children under 16. Use with caution.",
             alternatives |-> <<"acetaminophen", "ibuprofen">>]
       [] k = "warfarin" ->
            [reason |-> "Blood thinner with risk of internal bleeding. Not for unsupervised use in children.",
             alternatives |-> <<"clopidogrel", "aspirin (under supervision)">>]
       [] k = "acetaminophen" ->
            [reason |-> "Generally safe in proper doses. Risk of liver damage at high doses.",
             alternatives |-> <<"ibuprofen", "naproxen">>]
       [] k = "ibuprofen" ->
            [reason |-> "Generally safe short-term. Long-term use risks kidney and GI damage.",
             alternatives |-> <<"paracetamol", "naproxen">>]
       [] k = "naproxen" ->
            [reason |-> "NSAID with similar risks to ibuprofen. Use cautiously in kids.",
             alternatives |-> <<"acetaminophen", "ibuprofen">>]
       [] k = "clonazepam" ->
            [reason |-> "Benzodiazepine with high risk of dependence. Not for pediatric use unless prescribed.",
             alternatives |-> <<"melatonin", "hydroxyzine">>]
       [] OTHER ->
            [reason |-> "Strong opioid with overdose risk. Avoid pediatric use.",
             alternatives |-> <<"acetaminophen", "naproxen">>]]

safe_default_alternatives == <<"paracetamol", "ibuprofen", "acetaminophen">>

\* ------------------------------------------------------ report entries
\* The "interactions" field is either a string or a list of strings.
TextField(s) == [kind |-> "str", text |-> s, items |-> <<>>]
ListField(l) == [kind |-> "list", text |-> "", items |-> l]

IsDangerousCaseSensitive(drug) == drug \in DOMAIN dangerous_drugs

\* drug.lower() in dangerous_drugs
IsDangerous(drug) == lower(drug) \in DOMAIN dangerous_drugs

HazardEntry(drug) ==
    [drug |-> drug,
     interactions |-> TextField("Prohibited / Dangerous"),
     age_risk |-> "Severe Risk",
     organ_risks |-> "High toxicity",
     reason |-> dangerous_drugs[lower(drug)].reason,
     alternatives |-> dangerous_drugs[lower(drug)].alternatives]

UnknownEntry(drug) ==
    [drug |-> drug,
     interactions |-> TextField("Unknown (RxCUI not found)"),
     age_risk |-> "Unknown",
     organ_risks |-> "Unknown",
     reason |-> "Could not identify drug in RxNorm",
     alternatives |-> <<>>]

AgeRiskFrom12(a) == IF a >= 12 THEN "Low" ELSE "Needs pediatric check"

AgeRisk(a) == IF a > 12 THEN "Low" ELSE "Needs pediatric check"

SafeEntry(drug, related, a) ==
    [drug |-> drug,
     interactions |-> IF related # <<>> THEN ListField(related) ELSE TextField("None"),
     age_risk |-> AgeRisk(a),
     organ_risks |-> "None",
     reason |-> IF related # <<>> THEN "Interactions found" ELSE "Safe drug for age",
     alternatives |-> IF related = <<>> THEN safe_default_alternatives ELSE <<>>]

\* f"{source} <-> {target}: {description}", kept as its pieces in order
\* (the source's arrow U+2194 is written "<->" in ASCII).
FormatPair(source, target, description) ==
    <<source.val, " <-> ", target.val, ": ", description>>

\* ------------------------------------------------------- step 1 and 2
RECURSIVE HazardEntries(_)
HazardEntries(ds) ==
    IF ds = <<>> THEN <<>>
    ELSE (IF IsDangerous(Head(ds)) THEN <<HazardEntry(Head(ds))>> ELSE <<>>)
         \o HazardEntries(Tail(ds))

SafeDrugsUnfiltered(ds) == ds

SafeDrugs(ds) == SelectSeq(ds, LAMBDA d : ~IsDangerous(d))

\* ------------------------------------------------ identifier service
\* The identifier the vocabulary service holds for a lowercase name.
RxNormId(name) ==
    CASE lower(name) = "ibuprofen" -> "5640"
      [] lower(name) = "naproxen" -> "7258"
      [] lower(name) = "advil" -> "153010"
      [] OTHER -> "202488"

\* What requests.get(...).json() can be for one lookup.
RxcuiResponses(name) ==
    {[status |-> s, first |-> PyNone] :
        s \in {"transport_error", "http_error", "malformed_json", "bad_shape"}}
    \cup {[status |-> "ok", first |-> v] :
        v \in {PyNone, PyStr(RxNormId(name)), PyInt(RxNormId(name)), PyList(RxNormId(name))}}

get_rxcui(resp) == IF resp.status = "ok" THEN resp.first ELSE PyNone

\* ------------------------------------------------ interaction service
ConceptNames == {PyStr("Advil"), PyStr("motrin"), PyNone}
Descriptions == {"may increase bleeding risk"}
InteractionPairs ==
    [sourceDrug : ConceptNames, targetDrug : ConceptNames, description : Descriptions]

InteractionResponses ==
    {[status |-> s, pairs |-> <<>>] :
        s \in {"transport_error", "http_error", "malformed_json", "bad_shape"}}
    \cup {[status |-> "ok", pairs |-> p] : p \in SeqsUpTo(InteractionPairs, MaxPairs)}

\* "+".join(rxcui_list) raises TypeError on a non-string item.
JoinRaises(rxcui_list) == \E n \in DOMAIN rxcui_list : ~IsStr(rxcui_list[n])

get_interactions(resp) == IF resp.status = "ok" THEN resp.pairs ELSE <<>>

\* source.lower() / target.lower() raise on a non-string name.
LowerRaises(inter) == ~IsStr(inter.sourceDrug) \/ ~IsStr(inter.targetDrug)

Matches(drug, inter) ==
    lower(drug) \in {lower(inter.sourceDrug.val), lower(inter.targetDrug.val)}

\* for drug in safe_drugs: if match: interaction_map[drug].append(...)
RECURSIVE AttributeOne(_, _, _)
AttributeOne(map, ds, inter) ==
    IF ds = <<>> THEN map
    ELSE LET d == Head(ds)
             m == IF Matches(d, inter)
                  THEN [map EXCEPT ![d] = Append(@, FormatPair(inter.sourceDrug,
                                                   inter.targetDrug, inter.description))]
                  ELSE map
         IN  AttributeOne(m, Tail(ds), inter)

\* for inter in interactions: ...
RECURSIVE AttributeAll(_, _, _)
AttributeAll(map, ds, inters) ==
    IF inters = <<>> THEN map
    ELSE AttributeAll(AttributeOne(map, ds, Head(inters)), ds, Tail(inters))

\* ------------------------------------------------------------- step 5
RECURSIVE SafeEntries(_, _, _)
SafeEntries(ds, map, a) ==
    IF ds = <<>> THEN <<>>
    ELSE <<SafeEntry(Head(ds), map[Head(ds)], a)>> \o SafeEntries(Tail(ds), map, a)

\* ============================================================ behaviour
Init ==
    /\ drugs \in SeqsUpTo(DrugNames, MaxDrugs)
    /\ age \in Ages
    /\ pc = "step1"
    /\ results = <<>>
    /\ safe_drugs = <<>>
    /\ i = 1
    /\ drug_to_rxcui = <<>>
    /\ rxcui_to_drug = <<>>
    /\ valid_rxcuis = <<>>
    /\ interaction_map = <<>>
    /\ rxcui_calls = <<>>
    /\ interaction_calls = <<>>

\* Steps 1 and 2: hazard entries, then the filtered list.
Classify ==
    /\ pc = "step1"
    /\ results' = HazardEntries(drugs)
    /\ safe_drugs' = SafeDrugs(drugs)
    /\ pc' = "step3"
    /\ UNCHANGED <<drugs, age, i, drug_to_rxcui, rxcui_to_drug, valid_rxcuis,
                   interaction_map, rxcui_calls, interaction_calls>>

\* Step 3, one iteration whose identifier is usable as a dict key or falsy.
Resolve ==
    /\ pc = "step3"
    /\ i <= Len(safe_drugs)
    /\ \E resp \in RxcuiResponses(safe_drugs[i]) :
        LET drug == safe_drugs[i]
            rxcui == get_rxcui(resp)
        IN  /\ ~(Truthy(rxcui) /\ ~Hashable(rxcui))
            /\ rxcui_calls' = Append(rxcui_calls, [name |-> drug, ret |-> rxcui])
            /\ IF Truthy(rxcui)
               THEN /\ drug_to_rxcui' = DictSet(drug_to_rxcui, drug, rxcui)
                    /\ rxcui_to_drug' = DictSet(rxcui_to_drug, rxcui, drug)
                    /\ UNCHANGED results
               ELSE /\ results' = Append(results, UnknownEntry(drug))
                    /\ UNCHANGED <<drug_to_rxcui, rxcui_to_drug>>
    /\ i' = i + 1
    /\ UNCHANGED <<drugs, age, pc, safe_drugs, valid_rxcuis, interaction_map,
                   interaction_calls>>

\* Step 3, one iteration whose identifier is a list: line 153 raises TypeError.
ResolveUnhashable ==
    /\ pc = "step3"
    /\ i <= Len(safe_drugs)
    /\ \E resp \in RxcuiResponses(safe_drugs[i]) :
        LET drug == safe_drugs[i]
            rxcui == get_rxcui(resp)
        IN  /\ Truthy(rxcui) /\ ~Hashable(rxcui)
            /\ rxcui_calls' = Append(rxcui_calls, [name |-> drug, ret |-> rxcui])
            /\ drug_to_rxcui' = DictSet(drug_to_rxcui, drug, rxcui)
    /\ pc' = "raised"
    /\ UNCHANGED <<drugs, age, results, safe_drugs, i, rxcui_to_drug, valid_rxcuis,
                   interaction_map, interaction_calls>>

\* Lines 164-165, after the loop of step 3.
Collect ==
    /\ pc = "step3"
    /\ i > Len(safe_drugs)
    /\ valid_rxcuis' = DictValues(drug_to_rxcui)
    /\ interaction_map' = [d \in {safe_drugs[n] : n \in DOMAIN safe_drugs} |-> <<>>]
    /\ pc' = "step4"
    /\ UNCHANGED <<drugs, age, results, safe_drugs, i, drug_to_rxcui, rxcui_to_drug,
                   rxcui_calls, interaction_calls>>

\* Step 4 with fewer than two identifiers: no call.
SkipInteractions ==
    /\ pc = "step4"
    /\ ~(Len(valid_rxcuis) > 1)
    /\ pc' = "step5"
    /\ UNCHANGED <<drugs, age, results, safe_drugs, i, drug_to_rxcui, rxcui_to_drug,
                   valid_rxcuis, interaction_map, rxcui_calls, interaction_calls>>

\* Step 4: "+".join raises before the request is sent.
InteractJoinRaises ==
    /\ pc = "step4"
    /\ Len(valid_rxcuis) > 1
    /\ JoinRaises(valid_rxcuis)
    /\ pc' = "raised"
    /\ UNCHANGED <<drugs, age, results, safe_drugs, i, drug_to_rxcui, rxcui_to_drug,
                   valid_rxcuis, interaction_map, rxcui_calls, interaction_calls>>

\* Step 4: one batched call, then attribution over safe_drugs.
Interact ==
    /\ pc = "step4"
    /\ Len(valid_rxcuis) > 1
    /\ ~JoinRaises(valid_rxcuis)
    /\ \E resp \in InteractionResponses :
        LET interactions == get_interactions(resp)
        IN  /\ \A n \in DOMAIN interactions : ~LowerRaises(interactions[n])
            /\ interaction_calls' =
                   Append(interaction_calls, [rxcuis |-> valid_rxcuis, ret |-> interactions])
            /\ interaction_map' = AttributeAll(interaction_map, safe_drugs, interactions)
    /\ pc' = "step5"
    /\ UNCHANGED <<drugs, age, results, safe_drugs, i, drug_to_rxcui, rxcui_to_drug,
                   valid_rxcuis, rxcui_calls>>

\* Step 4: a returned concept name is not a string, .lower() raises.
InteractLowerRaises ==
    /\ pc = "step4"
    /\ Len(valid_rxcuis) > 1
    /\ ~JoinRaises(valid_rxcuis)
    /\ \E resp \in InteractionResponses :
        LET interactions == get_interactions(resp)
            bad == {n \in DOMAIN interactions : LowerRaises(interactions[n])}
        IN  /\ bad # {}
            /\ LET first == CHOOSE n \in bad : \A m \in bad : n <= m
               IN  /\ interaction_calls' =
                          Append(interaction_calls, [rxcuis |-> valid_rxcuis, ret |-> interactions])
                   /\ interaction_map' =
                          AttributeAll(interaction_map, safe_drugs, SubSeq(interactions, 1, first - 1))
    /\ pc' = "raised"
    /\ UNCHANGED <<drugs, age, results, safe_drugs, i, drug_to_rxcui, rxcui_to_drug,
                   valid_rxcuis, rxcui_calls>>

\* Step 5 and the return.
Report ==
    /\ pc = "step5"
    /\ results' = results \o SafeEntries(safe_drugs, interaction_map, age)
    /\ pc' = "done"
    /\ UNCHANGED <<drugs, age, safe_drugs, i, drug_to_rxcui, rxcui_to_drug, valid_rxcuis,
                   interaction_map, rxcui_calls, interaction_calls>>

Next ==
    \/ Classify
    \/ Resolve
    \/ ResolveUnhashable
    \/ Collect
    \/ SkipInteractions
    \/ InteractJoinRaises
    \/ Interact
    \/ InteractLowerRaises
    \/ Report

Spec == Init /\ [][Next]_vars

\* =========================================================== properties
Terminated == pc \in {"done", "raised"}
InputDrugs == {drugs[n] : n \in DOMAIN drugs}
InHazardTable(d) == lower(d) \in DOMAIN dangerous_drugs
ResolvedNames == DictKeys(drug_to_rxcui)
FlaggedEntry(e) == e.interactions = TextField("Prohibited / Dangerous")
UnresolvedEntry(e) == e.interactions = TextField("Unknown (RxCUI not found)")
ReturnedPairs == IF interaction_calls = <<>> THEN <<>> ELSE interaction_calls[1].ret

\* C1: the returned results list has exactly len(drugs) entries, one per
\* input drug occurrence, whatever the collaborators answer.
C1_OneEntryPerDrug == pc = "done" => Len(results) = Len(drugs)

Block(e) ==
    IF InHazardTable(e.drug) THEN 1
    ELSE IF e.drug \notin ResolvedNames THEN 2
    ELSE 3
C3_ThreeBlocks ==
    pc = "done" =>
        \A a, b \in DOMAIN results : a < b => Block(results[a]) <= Block(results[b])

\* C4: no collaborator outcome makes check_drugs raise.
C4_NeverRaises == pc # "raised"

\* C5: for drugs = [ibuprofen, naproxen], age = 30 the two entries carry
\* the formatted pair, reason "Interactions found" and no alternatives.
C5_Scenario == pc = "done" /\ drugs = <<"ibuprofen", "naproxen">> /\ age = 30
C6_HazardNeverSentOut ==
    /\ \A n \in DOMAIN rxcui_calls : ~InHazardTable(rxcui_calls[n].name)
    /\ \A c \in DOMAIN interaction_calls :
        \A m \in DOMAIN interaction_calls[c].rxcuis :
            \A d \in InputDrugs :
                InHazardTable(d) => interaction_calls[c].rxcuis[m].val # RxNormId(d)

\* A hazard drug in a batch whose other drugs reached the interaction service.
C6_Witness ==
    /\ pc = "done"
    /\ \E d \in InputDrugs : InHazardTable(d)
    /\ Len(rxcui_calls) = 2
    /\ Len(interaction_calls) = 1

\* C7: an entry for a resolved non-hazard drug has age_risk
\* "Needs pediatric check" exactly when age <= 12 and "Low" when age > 12.
C7_AgeBoundary ==
    pc = "done" =>
        \A k \in DOMAIN results :
            (/\ ~InHazardTable(results[k].drug)
             /\ results[k].drug \in ResolvedNames
             /\ ~UnresolvedEntry(results[k]))
            => /\ (age <= 12 <=> results[k].age_risk = "Needs pediatric check")
               /\ (age > 12 <=> results[k].age_risk = "Low")

\* Age 12, a resolved drug with interactions attributed.
C7_Witness ==
    /\ pc = "done"
    /\ age = 12
    /\ \E k \in DOMAIN results :
        /\ results[k].drug \in ResolvedNames
        /\ results[k].reason = "Interactions found"
        /\ results[k].age_risk = "Needs pediatric check"

\* C8: a non-hazard drug whose lookup failed gets no interaction string
\* and no entry with reason "Interactions found".
C8_UnresolvedExcluded ==
    pc = "done" =>
        \A k \in DOMAIN results :
            (~InHazardTable(results[k].drug) /\ results[k].drug \notin ResolvedNames)
            => /\ results[k].reason # "Interactions found"
               /\ results[k].interactions.items = <<>>

\* C9: past step 3 the interaction service has been called zero times
\* if fewer than two identifiers were collected and exactly once, with
\* every collected identifier, otherwise.
C9_OneBatchedCall ==
    pc \in {"step5", "done", "raised"} =>
        IF Len(valid_rxcuis) < 2
        THEN interaction_calls = <<>>
        ELSE /\ Len(interaction_calls) = 1
             /\ interaction_calls[1].rxcuis = valid_rxcuis

\* C10: the entry of a resolved drug lists exactly one formatted string
\* per returned pair naming the drug, in the order the pairs came back.
ExpectedStrings(d) ==
    LET named == SelectSeq(ReturnedPairs, LAMBDA p : Matches(d, p))
    IN  [n \in DOMAIN named |->
            FormatPair(named[n].sourceDrug, named[n].targetDrug, named[n].description)]
C10_OneStringPerPair ==
    pc = "done" =>
        \A k \in DOMAIN results :
            (/\ ~InHazardTable(results[k].drug)
             /\ results[k].drug \in ResolvedNames
             /\ ~UnresolvedEntry(results[k]))
            => results[k].interactions.items = ExpectedStrings(results[k].drug)

====
